---------------------------- MODULE Spec2Model ----------------------------
(***************************************************************************)
(* Model of the user and employee route handlers (src/routes/*.js).        *)
(*                                                                         *)
(* Strings are sequences of one-character strings.  Every await on a       *)
(* database call is a point where other requests may run, so each handler  *)
(* is split into one action per database call; each database call itself   *)
(* is atomic on its document.  The database is assumed reachable (the      *)
(* catch blocks that answer 500 are not modelled).                         *)
(***************************************************************************)
EXTENDS Integers, Sequences, FiniteSets, TLC

VARIABLES
    employees,   \* the 'employees' collection: ObjectId value -> document
    users,       \* the 'users' collection: ObjectId value -> document
    nextId,      \* value of the next ObjectId the driver generates
    clock,       \* what new Date() returns
    pc,          \* per request slot: where its handler is
    req,         \* per request slot: the request (op, eid, body)
    local,       \* per request slot: the handler's local found document
    res,         \* per request slot: the response sent
    issued,      \* number of requests received so far
    overlap,     \* whether the clients send a request while another is handled
    seen,        \* history: ids in 'users' when the slot's findOne ran
    sawAtCheck,  \* history: per inserted user, the ids its signup's check saw
    updatedIds   \* history: employee ids some update has written to

vars == <<employees, users, nextId, clock, pc, req, local, res, issued, overlap,
          seen, sawAtCheck, updatedIds>>

-----------------------------------------------------------------------------
(* Bounds of the model *)

MaxRequests == 3

Slots == {"r1", "r2"}

-----------------------------------------------------------------------------
(* JavaScript values *)

Undefined == <<"undefined">>
Null == <<"null">>

Digits == {"0", "1", "2", "3", "4", "5", "6", "7", "8", "9"}

DigitVal(c) ==
    CASE c = "0" -> 0 [] c = "1" -> 1 [] c = "2" -> 2 [] c = "3" -> 3
      [] c = "4" -> 4 [] c = "5" -> 5 [] c = "6" -> 6 [] c = "7" -> 7
      [] c = "8" -> 8 [] c = "9" -> 9
      [] c \in {"a", "A"} -> 10 [] c \in {"b", "B"} -> 11
      [] c \in {"c", "C"} -> 12 [] c \in {"d", "D"} -> 13
      [] c \in {"e", "E"} -> 14 [] c \in {"f", "F"} -> 15

HexChars == Digits \cup {"a", "b", "c", "d", "e", "f", "A", "B", "C", "D", "E", "F"}

HexDigit == <<"0", "1", "2", "3", "4", "5", "6", "7", "8", "9",
              "a", "b", "c", "d", "e", "f">>

ObjectIdLen == 24

\* express-validator turns the value into a string before a validator runs
ToStr(v) == IF v = Undefined \/ v = Null THEN <<>> ELSE v

AllIn(s, S) == \A i \in 1..Len(s) : s[i] \in S

\* .notEmpty()
NotEmpty(v) == ToStr(v) # <<>>

\* .isEmail(): one "@", a non-empty local part, a domain with an inner dot
IsEmail(v) ==
    LET s == ToStr(v)
        ats == {i \in 1..Len(s) : s[i] = "@"}
    IN  /\ Cardinality(ats) = 1
        /\ LET at == CHOOSE i \in ats : TRUE
               dom == SubSeq(s, at + 1, Len(s))
           IN  /\ at > 1
               /\ \E j \in 2..(Len(dom) - 1) : dom[j] = "."
               /\ dom[1] # "." /\ dom[Len(dom)] # "."
               /\ \A j \in 1..(Len(dom) - 1) : ~(dom[j] = "." /\ dom[j + 1] = ".")

\* .isNumeric(): /^[+-]?([0-9]*[.])?[0-9]+$/
IsNumeric(v) ==
    LET s == ToStr(v)
        t == IF s # <<>> /\ s[1] \in {"+", "-"} THEN Tail(s) ELSE s
        dots == {i \in 1..Len(t) : t[i] = "."}
    IN  /\ t # <<>>
        /\ Cardinality(dots) <= 1
        /\ \A i \in 1..Len(t) : t[i] \in Digits \cup {"."}
        /\ t[Len(t)] # "."

RECURSIVE NatOf(_)
NatOf(s) == IF s = <<>> THEN 0
            ELSE 10 * NatOf(SubSeq(s, 1, Len(s) - 1)) + DigitVal(s[Len(s)])

\* Number(salary), for the integer numerals
Number(s) ==
    IF s[1] = "-" THEN 0 - NatOf(Tail(s))
    ELSE IF s[1] = "+" THEN NatOf(Tail(s))
    ELSE NatOf(s)

\* .isISO8601() (not strict), for the calendar form YYYY-MM-DD
IsISO8601(v) ==
    LET s == ToStr(v)
    IN  /\ Len(s) = 10
        /\ s[5] = "-" /\ s[8] = "-"
        /\ \A i \in {1, 2, 3, 4, 6, 7, 9, 10} : s[i] \in Digits
        /\ NatOf(SubSeq(s, 6, 7)) \in 1..12
        /\ NatOf(SubSeq(s, 9, 10)) \in 1..31

\* new Date("YYYY-MM-DD"): UTC midnight of that day, as days since 1970-01-01
NewDate(s) ==
    LET y0 == NatOf(SubSeq(s, 1, 4))
        m == NatOf(SubSeq(s, 6, 7))
        d == NatOf(SubSeq(s, 9, 10))
        y == IF m <= 2 THEN y0 - 1 ELSE y0
        era == y \div 400
        yoe == y - era * 400
        mp == (m + 9) % 12
        doy == (153 * mp + 2) \div 5 + d - 1
        doe == yoe * 365 + yoe \div 4 - yoe \div 100 + doy
    IN  era * 146097 + doe - 719468

\* .isMongoId(): 24 hexadecimal characters
IsMongoId(v) ==
    LET s == ToStr(v)
    IN  Len(s) = ObjectIdLen /\ AllIn(s, HexChars)

RECURSIVE HexOf(_, _)
HexOf(n, len) == IF len = 0 THEN <<>>
                 ELSE Append(HexOf(n \div 16, len - 1), HexDigit[(n % 16) + 1])

\* ObjectId.prototype.toString()
ToHexString(id) == HexOf(id, ObjectIdLen)

RECURSIVE HexVal(_)
HexVal(s) == IF s = <<>> THEN 0
             ELSE 16 * HexVal(SubSeq(s, 1, Len(s) - 1)) + DigitVal(s[Len(s)])

\* new ObjectId(eid)
ObjectId(s) == HexVal(s)

\* .isLength({ min: 6 })
IsLengthMin6(v) == Len(ToStr(v)) >= 6


-----------------------------------------------------------------------------
(* express-validator chains *)

Rule(loc, fld, kind, opt, msg) ==
    [loc |-> loc, field |-> fld, kind |-> kind, optional |-> opt, msg |-> msg]

validateEmployee == <<
    Rule("body", "first_name", "notEmpty", FALSE, "First name is required"),
    Rule("body", "last_name", "notEmpty", FALSE, "Last name is required"),
    Rule("body", "email", "isEmail", FALSE, "Valid email is required"),
    Rule("body", "position", "notEmpty", FALSE, "Position is required"),
    Rule("body", "salary", "isNumeric", FALSE, "Salary must be a number"),
    Rule("body", "date_of_joining", "isISO8601", FALSE, "Valid date is required"),
    Rule("body", "department", "notEmpty", FALSE, "Department is required") >>

validateEmployeeUpdate == <<
    Rule("body", "first_name", "notEmpty", TRUE, "First name cannot be empty"),
    Rule("body", "last_name", "notEmpty", TRUE, "Last name cannot be empty"),
    Rule("body", "email", "isEmail", TRUE, "Valid email is required"),
    Rule("body", "position", "notEmpty", TRUE, "Position cannot be empty"),
    Rule("body", "salary", "isNumeric", TRUE, "Salary must be a number"),
    Rule("body", "date_of_joining", "isISO8601", TRUE, "Valid date is required"),
    Rule("body", "department", "notEmpty", TRUE, "Department cannot be empty") >>

validateObjectId == << Rule("params", "eid", "isMongoId", FALSE, "Invalid employee ID") >>

validateQueryId == << Rule("query", "eid", "isMongoId", FALSE, "Invalid employee ID") >>

\* the value a rule looks at: req.body[field], req.params.eid or req.query.eid
FieldOf(q, rule) ==
    IF rule.loc = "body"
    THEN IF rule.field \in DOMAIN q.body THEN q.body[rule.field] ELSE Undefined
    ELSE q.eid

Passes(kind, v) ==
    CASE kind = "notEmpty" -> NotEmpty(v)
      [] kind = "isEmail" -> IsEmail(v)
      [] kind = "isNumeric" -> IsNumeric(v)
      [] kind = "isISO8601" -> IsISO8601(v)
      [] kind = "isMongoId" -> IsMongoId(v)
      [] kind = "isLength6" -> IsLengthMin6(v)

RuleFails(q, rule) ==
    LET v == FieldOf(q, rule)
    IN  IF rule.optional /\ v = Undefined THEN FALSE ELSE ~Passes(rule.kind, v)

\* validationResult(req).array(): the messages of the failed rules, in the
\* order the chains ran
RECURSIVE ValidationErrors(_, _)
ValidationErrors(chain, q) ==
    IF chain = <<>> THEN <<>>
    ELSE (IF RuleFails(q, Head(chain)) THEN <<Head(chain).msg>> ELSE <<>>)
         \o ValidationErrors(Tail(chain), q)

-----------------------------------------------------------------------------
(* Responses *)

NoRes == [status |-> 0]

ErrorRes(code, msg) == [status |-> code, body |-> [status |-> FALSE, message |-> msg]]

OkRes(code, body) == [status |-> code, body |-> body]

-----------------------------------------------------------------------------
(* Requests the clients send *)

EmailA == <<"a", "@", "x", ".", "c", "o">>
EmailB == <<"b", "@", "x", ".", "c", "o">>

BaseBody(e) ==
    [first_name |-> <<"A">>, last_name |-> <<"B">>, email |-> e,
     position |-> <<"E", "n", "g">>, salary |-> <<"5", "0", "0", "0", "0">>,
     date_of_joining |-> <<"2", "0", "2", "3", "-", "0", "1", "-", "0", "1">>,
     department |-> <<"T", "e", "c", "h">>]

Without(b, flds) == [f \in (DOMAIN b) \ flds |-> b[f]]

CreateBodies ==
    { BaseBody(EmailA), BaseBody(EmailB),
      [BaseBody(EmailB) EXCEPT !.salary = <<"-", "0", "7">>],
      Without(BaseBody(EmailA), {"email", "salary"}),
      [BaseBody(EmailA) EXCEPT
          !.date_of_joining = <<"2", "0", "2", "3", "-", "1", "3", "-", "0", "1">>] }

UpdateBodies ==
    { <<>>,
      [email |-> EmailA],
      [salary |-> <<"6", "0">>],
      [first_name |-> <<"Z">>, department |-> <<"O", "p", "s">>],
      [last_name |-> <<"Y">>, position |-> <<"Q", "A">>,
       date_of_joining |-> <<"2", "0", "2", "4", "-", "0", "2", "-", "2", "9">>],
      [salary |-> <<"x">>],
      [first_name |-> <<>>] }

SampleIds == {1, 2}

BadId == <<"x", "y", "z">>

PathIds == {ToHexString(i) : i \in SampleIds} \cup {BadId}

QueryIds == PathIds \cup {Undefined}

-----------------------------------------------------------------------------
(* MongoDB collection operations *)

\* what findOne(filter) may resolve to, hits being the ids of the documents
\* the filter matches: a matching document (without a sort the store may
\* return any of them), or null when none matches
NoDoc == [found |-> FALSE]

FindOne(coll, hits) ==
    IF hits = {} THEN {NoDoc}
    ELSE {[found |-> TRUE, id |-> id, doc |-> coll[id]] : id \in hits}

\* insertOne(doc) under the generated _id
InsertOne(coll, id, doc) == [i \in DOMAIN coll \cup {id} |-> IF i = id THEN doc ELSE coll[i]]

\* updateOne({_id}, {$set: data}): sets the given fields of the matching
\* document, and does nothing when none matches (no upsert)
UpdateOneReplace(coll, id, data) ==
    IF id \in DOMAIN coll THEN [coll EXCEPT ![id] = data] ELSE coll

UpdateOne(coll, id, data) ==
    IF id \in DOMAIN coll
    THEN [coll EXCEPT ![id] =
            [f \in DOMAIN coll[id] \cup DOMAIN data |->
                IF f \in DOMAIN data THEN data[f] ELSE coll[id][f]]]
    ELSE coll

\* deleteOne({_id})
DeleteOneNoMatch(coll, id) == coll

DeleteOne(coll, id) == [i \in DOMAIN coll \ {id} |-> coll[i]]

-----------------------------------------------------------------------------
(* Employee documents *)

\* the document the create handler builds
NewEmployee(b, now) ==
    [first_name |-> b.first_name, last_name |-> b.last_name, email |-> b.email,
     position |-> b.position, salary |-> Number(b.salary),
     date_of_joining |-> NewDate(b.date_of_joining), department |-> b.department,
     created_at |-> now, updated_at |-> now]

\* the object a fetch answers with
FormatEmployeeWithTimestamps(id, emp) ==
    [employee_id |-> ToHexString(id), first_name |-> emp.first_name,
     last_name |-> emp.last_name, email |-> emp.email, position |-> emp.position,
     salary |-> emp.salary, date_of_joining |-> emp.date_of_joining,
     department |-> emp.department, created_at |-> emp.created_at,
     updated_at |-> emp.updated_at]

FormatEmployee(id, emp) ==
    [employee_id |-> ToHexString(id), first_name |-> emp.first_name,
     last_name |-> emp.last_name, email |-> emp.email, position |-> emp.position,
     salary |-> emp.salary, date_of_joining |-> emp.date_of_joining,
     department |-> emp.department]

Truthy(v) == v # <<>> /\ v # Undefined /\ v # Null

\* the $set document the update handler builds
UpdateData(b, now) ==
    [f \in DOMAIN b \cup {"updated_at"} |->
        IF f = "updated_at" THEN now
        ELSE IF f = "salary" /\ Truthy(b[f]) THEN Number(b[f])
        ELSE IF f = "date_of_joining" /\ Truthy(b[f]) THEN NewDate(b[f])
        ELSE b[f]]

-----------------------------------------------------------------------------
(* Request handling common to the routes *)

Quiet(r) == \A q \in Slots \ {r} : pc[q] \in {"idle", "done"}

\* slot r can take a new request
Free(r) ==
    /\ pc[r] \in {"idle", "done"}
    /\ issued < MaxRequests
    /\ overlap \/ Quiet(r)

\* a request arrives; its validators run before the handler touches the store
Receive(r, q, chain, next) ==
    LET errors == ValidationErrors(chain, q)
    IN  /\ issued' = issued + 1
        /\ req' = [req EXCEPT ![r] = q]
        /\ local' = [local EXCEPT ![r] = Null]
        /\ seen' = [seen EXCEPT ![r] = {}]
        /\ IF errors # <<>>
           THEN /\ res' = [res EXCEPT ![r] = ErrorRes(400, errors[1])]
                /\ pc' = [pc EXCEPT ![r] = "done"]
           ELSE /\ res' = [res EXCEPT ![r] = NoRes]
                /\ pc' = [pc EXCEPT ![r] = next]
        /\ UNCHANGED <<employees, users, nextId, clock, overlap, sawAtCheck, updatedIds>>

Respond(r, response) ==
    /\ res' = [res EXCEPT ![r] = response]
    /\ pc' = [pc EXCEPT ![r] = "done"]

-----------------------------------------------------------------------------
(* POST /api/v1/emp/employees *)

CreateEmployee(r) ==
    \E b \in CreateBodies :
        /\ Free(r)
        /\ Receive(r, [op |-> "create", eid |-> Undefined, body |-> b],
                   validateEmployee, "c_find")

\* the filter { email }
CreateFilterWrongField(doc, b) == doc.email = b.first_name

CreateFilter(doc, b) == doc.email = b.email

\* findOne({ email }) and what follows up to the insertOne call
CreateFind(r) ==
    /\ pc[r] = "c_find"
    /\ \E existingEmployee \in
          FindOne(employees,
                  {id \in DOMAIN employees : CreateFilter(employees[id], req[r].body)}) :
          IF existingEmployee.found
          THEN /\ Respond(r, ErrorRes(400, "Employee already exists with this email"))
               /\ UNCHANGED <<local, clock>>
          ELSE /\ local' = [local EXCEPT ![r] = NewEmployee(req[r].body, clock)]
               /\ clock' = clock + 1
               /\ pc' = [pc EXCEPT ![r] = "c_insert"]
               /\ UNCHANGED res
    /\ UNCHANGED <<employees, users, nextId, req, issued, overlap, seen, sawAtCheck, updatedIds>>

\* insertOne(newEmployee) and the 201 answer
CreateInsert(r) ==
    /\ pc[r] = "c_insert"
    /\ employees' = InsertOne(employees, nextId, local[r])
    /\ nextId' = nextId + 1
    /\ Respond(r, OkRes(201, [message |-> "Employee created successfully.",
                              employee_id |-> ToHexString(nextId)]))
    /\ UNCHANGED <<users, clock, req, local, issued, overlap, seen, sawAtCheck, updatedIds>>

-----------------------------------------------------------------------------
(* GET /api/v1/emp/employees/:eid *)

GetEmployee(r) ==
    \E e \in PathIds :
        /\ Free(r)
        /\ Receive(r, [op |-> "get", eid |-> e, body |-> <<>>], validateObjectId, "g_find")

GetFind(r) ==
    /\ pc[r] = "g_find"
    /\ LET id == ObjectId(req[r].eid)
       IN  IF id \notin DOMAIN employees
           THEN Respond(r, ErrorRes(404, "Employee not found"))
           ELSE Respond(r, OkRes(200, FormatEmployee(id, employees[id])))
    /\ UNCHANGED <<employees, users, nextId, clock, req, local, issued, overlap,
                   seen, sawAtCheck, updatedIds>>

-----------------------------------------------------------------------------
(* PUT /api/v1/emp/employees/:eid *)

\* the route's validators, in the order they are given to router.put
UpdateChainBodyFirst == validateEmployeeUpdate \o validateObjectId

UpdateChain == validateObjectId \o validateEmployeeUpdate

UpdateEmployee(r) ==
    \E e \in PathIds, b \in UpdateBodies :
        /\ Free(r)
        /\ Receive(r, [op |-> "update", eid |-> e, body |-> b], UpdateChain, "u_find")

\* findOne({ _id }) and what follows up to the updateOne call
UpdateFind(r) ==
    /\ pc[r] = "u_find"
    /\ IF ObjectId(req[r].eid) \notin DOMAIN employees
       THEN /\ Respond(r, ErrorRes(404, "Employee not found"))
            /\ UNCHANGED <<local, clock>>
       ELSE /\ local' = [local EXCEPT ![r] = UpdateData(req[r].body, clock)]
            /\ clock' = clock + 1
            /\ pc' = [pc EXCEPT ![r] = "u_write"]
            /\ UNCHANGED res
    /\ UNCHANGED <<employees, users, nextId, req, issued, overlap, seen, sawAtCheck, updatedIds>>

\* updateOne({ _id }, { $set: updateData }) and the 200 answer
UpdateWrite(r) ==
    /\ pc[r] = "u_write"
    /\ LET id == ObjectId(req[r].eid)
       IN  /\ employees' = UpdateOne(employees, id, local[r])
           /\ updatedIds' = IF id \in DOMAIN employees
                            THEN updatedIds \cup {id} ELSE updatedIds
    /\ Respond(r, OkRes(200, [message |-> "Employee details updated successfully."]))
    /\ UNCHANGED <<users, nextId, clock, req, local, issued, overlap, seen, sawAtCheck>>

-----------------------------------------------------------------------------
(* DELETE /api/v1/emp/employees?eid= *)

DeleteEmployee(r) ==
    \E e \in QueryIds :
        /\ Free(r)
        /\ Receive(r, [op |-> "delete", eid |-> e, body |-> <<>>], validateQueryId, "d_find")

DeleteFind(r) ==
    /\ pc[r] = "d_find"
    /\ IF ObjectId(req[r].eid) \notin DOMAIN employees
       THEN Respond(r, ErrorRes(404, "Employee not found"))
       ELSE /\ pc' = [pc EXCEPT ![r] = "d_delete"]
            /\ UNCHANGED res
    /\ UNCHANGED <<employees, users, nextId, clock, req, local, issued, overlap,
                   seen, sawAtCheck, updatedIds>>

\* deleteOne({ _id }) and the 200 answer
DeleteDo(r) ==
    /\ pc[r] = "d_delete"
    /\ employees' = DeleteOne(employees, ObjectId(req[r].eid))
    /\ Respond(r, OkRes(200, [message |-> "Employee deleted successfully."]))
    /\ UNCHANGED <<users, nextId, clock, req, local, issued, overlap, seen, sawAtCheck, updatedIds>>

-----------------------------------------------------------------------------
(* The employee routes *)

NoReq == [op |-> "none", eid |-> Undefined, body |-> <<>>]

Start(mayOverlap) ==
    /\ overlap = mayOverlap
    /\ employees = <<>>
    /\ users = <<>>
    /\ nextId = 1
    /\ clock = 1
    /\ pc = [r \in Slots |-> "idle"]
    /\ req = [r \in Slots |-> NoReq]
    /\ local = [r \in Slots |-> Null]
    /\ res = [r \in Slots |-> NoRes]
    /\ issued = 0
    /\ seen = [r \in Slots |-> {}]
    /\ sawAtCheck = <<>>
    /\ updatedIds = {}

Init == Start(TRUE)

SeqInit == Start(FALSE)

EmployeeStep(r) ==
    \/ CreateEmployee(r)
    \/ CreateFind(r)
    \/ CreateInsert(r)
    \/ GetEmployee(r)
    \/ GetFind(r)
    \/ UpdateEmployee(r)
    \/ UpdateFind(r)
    \/ UpdateWrite(r)
    \/ DeleteEmployee(r)
    \/ DeleteFind(r)
    \/ DeleteDo(r)

\* requests of any number of clients, interleaved at every await
Next == \E r \in Slots : EmployeeStep(r)

Spec == Init /\ [][Next]_vars

\* requests sent one after the other: a request is received only when no
\* other is being handled
SeqSpec == SeqInit /\ [][Next]_vars

-----------------------------------------------------------------------------
(* User documents and credentials *)

validateSignup == <<
    Rule("body", "username", "notEmpty", FALSE, "Username is required"),
    Rule("body", "email", "isEmail", FALSE, "Valid email is required"),
    Rule("body", "password", "isLength6", FALSE, "Password must be at least 6 characters") >>

validateLogin == <<
    Rule("body", "email", "isEmail", FALSE, "Valid email is required"),
    Rule("body", "password", "notEmpty", FALSE, "Password is required") >>

SaltRounds == 10

Salts == {"s1", "s2"}

\* bcrypt.hash(password, 10) with the salt it drew: a salted one-way digest
BcryptHash(password, salt) ==
    [rounds |-> SaltRounds, salt |-> salt, digest |-> <<salt, password>>]

\* bcrypt.compare(password, hash)
BcryptCompare(password, hash) == hash.digest = <<hash.salt, password>>

\* the document the signup handler builds
NewUser(b, hashedPassword, now) ==
    [username |-> b.username, email |-> b.email, password |-> hashedPassword,
     created_at |-> now, updated_at |-> now]

NameAl == <<"a", "l">>
Pw1 == <<"s", "e", "c", "r", "e", "t", "1">>
Pw2 == <<"s", "e", "c", "r", "e", "t", "2">>

SignupBodies ==
    { [username |-> NameAl, email |-> EmailA, password |-> Pw1],
      [username |-> EmailA, email |-> EmailB, password |-> Pw2],
      [username |-> NameAl, email |-> EmailB, password |-> Pw2],
      [username |-> EmailB, email |-> EmailA, password |-> Pw2],
      [email |-> EmailA, password |-> Pw1],
      [username |-> NameAl, email |-> NameAl, password |-> <<"p", "w">>] }

LoginBodies ==
    { [email |-> EmailA, password |-> Pw1],
      [email |-> EmailA, password |-> Pw2],
      [email |-> EmailB, password |-> Pw2],
      [email |-> NameAl, password |-> Pw1],
      [email |-> EmailA] }

-----------------------------------------------------------------------------
(* POST /api/v1/user/signup *)

Signup(r) ==
    \E b \in SignupBodies :
        /\ Free(r)
        /\ Receive(r, [op |-> "signup", eid |-> Undefined, body |-> b],
                   validateSignup, "s_find")

\* the filter { $or: [{ email }, { username }] }
SignupFilterEmailOnly(doc, b) == doc.email = b.email

SignupFilter(doc, b) == doc.email = b.email \/ doc.username = b.username

\* findOne({ $or: [{ email }, { username }] })
SignupFind(r) ==
    /\ pc[r] = "s_find"
    /\ \E existingUser \in
          FindOne(users, {id \in DOMAIN users : SignupFilter(users[id], req[r].body)}) :
          IF existingUser.found
          THEN Respond(r, ErrorRes(400, "User already exists with this email or username"))
          ELSE /\ pc' = [pc EXCEPT ![r] = "s_hash"]
               /\ UNCHANGED res
    /\ seen' = [seen EXCEPT ![r] = DOMAIN users]
    /\ UNCHANGED <<employees, users, nextId, clock, req, local, issued, overlap,
                   sawAtCheck, updatedIds>>

\* bcrypt.hash resolves; the handler builds newUser and calls insertOne
SignupHash(r) ==
    /\ pc[r] = "s_hash"
    /\ \E salt \in Salts :
          local' = [local EXCEPT ![r] =
                      NewUser(req[r].body, BcryptHash(req[r].body.password, salt), clock)]
    /\ clock' = clock + 1
    /\ pc' = [pc EXCEPT ![r] = "s_insert"]
    /\ UNCHANGED <<employees, users, nextId, req, res, issued, overlap, seen,
                   sawAtCheck, updatedIds>>

\* insertOne(newUser) and the 201 answer
SignupInsert(r) ==
    /\ pc[r] = "s_insert"
    /\ users' = InsertOne(users, nextId, local[r])
    /\ sawAtCheck' = InsertOne(sawAtCheck, nextId, seen[r])
    /\ nextId' = nextId + 1
    /\ Respond(r, OkRes(201, [message |-> "User created successfully.",
                              user_id |-> ToHexString(nextId)]))
    /\ UNCHANGED <<employees, clock, req, local, issued, overlap, seen, updatedIds>>

-----------------------------------------------------------------------------
(* POST /api/v1/user/login *)

Login(r) ==
    \E b \in LoginBodies :
        /\ Free(r)
        /\ Receive(r, [op |-> "login", eid |-> Undefined, body |-> b],
                   validateLogin, "l_find")

\* the filter { $or: [{ email }, { username: email }] }
LoginFilter(doc, b) == doc.email = b.email \/ doc.username = b.email

NoUserResDistinct == ErrorRes(401, "User not found")

\* the answer when findOne resolves to null
NoUserRes == ErrorRes(401, "Invalid Username and password")

\* the answer when bcrypt.compare resolves to false
BadPasswordRes == ErrorRes(401, "Invalid Username and password")

\* findOne({ $or: [{ email }, { username: email }] })
LoginFind(r) ==
    /\ pc[r] = "l_find"
    /\ \E user \in FindOne(users, {id \in DOMAIN users : LoginFilter(users[id], req[r].body)}) :
          IF ~user.found
          THEN /\ Respond(r, NoUserRes)
               /\ local' = [local EXCEPT ![r] = user]
          ELSE /\ local' = [local EXCEPT ![r] = user]
               /\ pc' = [pc EXCEPT ![r] = "l_compare"]
               /\ UNCHANGED res
    /\ seen' = [seen EXCEPT ![r] = DOMAIN users]
    /\ UNCHANGED <<employees, users, nextId, clock, req, issued, overlap,
                   sawAtCheck, updatedIds>>

\* bcrypt.compare(password, user.password) and the answer
LoginCompare(r) ==
    /\ pc[r] = "l_compare"
    /\ IF ~BcryptCompare(req[r].body.password, local[r].doc.password)
       THEN Respond(r, BadPasswordRes)
       ELSE Respond(r, OkRes(200, [message |-> "Login successful.",
                                   jwt_token |-> "Optional implementation"]))
    /\ UNCHANGED <<employees, users, nextId, clock, req, local, issued, overlap, seen,
                   sawAtCheck, updatedIds>>

-----------------------------------------------------------------------------
(* The user routes *)

UserNext ==
    \E r \in Slots :
        \/ Signup(r)
        \/ SignupFind(r)
        \/ SignupHash(r)
        \/ SignupInsert(r)
        \/ Login(r)
        \/ LoginFind(r)
        \/ LoginCompare(r)

UserSpec == Init /\ [][UserNext]_vars

-----------------------------------------------------------------------------
(* Properties of the employee routes *)

EmailStored(email) == \E id \in DOMAIN employees : employees[id].email = email

UniqueEmails(coll) ==
    \A i, j \in DOMAIN coll : i # j => coll[i].email # coll[j].email

Answered(r, op, status) ==
    req[r].op = op /\ pc[r] = "done" /\ res[r].status = status

DuplicateEmployee == ErrorRes(400, "Employee already exists with this email")

\* C1, as stated: a create request never inserts its record while a record
\* with the same email is in the store, whatever the interleaving of creates.
C1_CreateNeverInsertsDuplicate ==
    [][\A r \in Slots :
          (pc[r] = "c_insert" /\ pc'[r] = "done") => ~EmailStored(req[r].body.email)]_vars

\* C1, amended: a create request whose existence check runs while a record
\* with the same email is in the store answers 400 and inserts nothing.
C1_CheckedDuplicateRejected ==
    [][\A r \in Slots :
          (pc[r] = "c_find" /\ pc'[r] # "c_find" /\ EmailStored(req[r].body.email))
          => /\ pc'[r] = "done"
             /\ res'[r] = DuplicateEmployee
             /\ employees' = employees]_vars

\* a create answered 400 for an email that is in the store
C1_Witness ==
    \E r \in Slots :
        /\ Answered(r, "create", 400)
        /\ res[r] = DuplicateEmployee
        /\ EmailStored(req[r].body.email)

\* C3, as stated: in every state reached by a sequence of create, update and
\* delete requests, no two stored employees have the same email.
C3_UniqueEmployeeEmails == UniqueEmails(employees)

\* C3, amended: in a sequence of create, update and delete requests, only the
\* write of an update that supplies an email can make two stored employees
\* share an email.
C3_OnlyEmailUpdateBreaksUniqueness ==
    [][(UniqueEmails(employees) /\ ~UniqueEmails(employees'))
        => \E r \in Slots : /\ pc[r] = "u_write" /\ pc'[r] = "done"
                           /\ "email" \in DOMAIN req[r].body]_vars

\* two records with different emails, and a create refused for its email
C3_Witness ==
    /\ Cardinality(DOMAIN employees) = 2
    /\ UniqueEmails(employees)
    /\ \E r \in Slots : /\ Answered(r, "create", 400)
                       /\ res[r] = DuplicateEmployee

\* C4: the write of an update that answers 200 changes no record but its
\* target, and in the target only the supplied fields and updated_at; no
\* record and no field is added or removed.
C4_UpdateFrame ==
    [][\A r \in Slots :
          (pc[r] = "u_write" /\ pc'[r] = "done" /\ res'[r].status = 200)
          => /\ DOMAIN employees' = DOMAIN employees
             /\ \A id \in DOMAIN employees :
                   /\ DOMAIN employees'[id] = DOMAIN employees[id]
                   /\ \A f \in DOMAIN employees[id] :
                         employees'[id][f] # employees[id][f]
                         => /\ id = ObjectId(req[r].eid)
                            /\ f \in DOMAIN req[r].body \cup {"updated_at"}]_vars

\* an update of first_name and department was written to one of two records
\* and the record's last_name is still the created one
C4_Witness ==
    \E r \in Slots :
        /\ Answered(r, "update", 200)
        /\ DOMAIN req[r].body = {"first_name", "department"}
        /\ LET id == ObjectId(req[r].eid)
           IN  /\ id \in DOMAIN employees
               /\ employees[id].first_name = req[r].body.first_name
               /\ employees[id].last_name = BaseBody(EmailA).last_name
               /\ employees[id].updated_at > employees[id].created_at
        /\ Cardinality(DOMAIN employees) = 2

NotFound == ErrorRes(404, "Employee not found")

\* C5: a fetch, update or delete whose well-formed identifier matches no
\* record when its lookup runs answers 404 and leaves the store unchanged;
\* and once a delete has answered 200 for an identifier, the lookup of
\* another delete with that identifier answers 404.
C5_AbsentIdIs404 ==
    [][\A r \in Slots :
          /\ (/\ pc[r] \in {"g_find", "u_find", "d_find"} /\ pc'[r] # pc[r]
              /\ ObjectId(req[r].eid) \notin DOMAIN employees)
             => (pc'[r] = "done" /\ res'[r] = NotFound /\ employees' = employees)
          /\ (/\ pc[r] = "d_find" /\ pc'[r] # pc[r]
              /\ \E q \in Slots \ {r} : /\ Answered(q, "delete", 200)
                                         /\ req[q].eid = req[r].eid)
             => (pc'[r] = "done" /\ res'[r] = NotFound /\ employees' = employees)]_vars

\* a delete answered 200 and another delete of the same identifier 404
C5_Witness ==
    \E r, q \in Slots :
        /\ Answered(q, "delete", 200)
        /\ Answered(r, "delete", 404)
        /\ req[q].eid = req[r].eid
        /\ nextId > ObjectId(req[r].eid)

InvalidId == ErrorRes(400, "Invalid employee ID")

\* C6: a fetch, update or delete with a malformed identifier is answered 400
\* 'Invalid employee ID' on arrival, whatever its body, and its handler never
\* reaches a database call.
C6_MalformedIdIs400 ==
    \A r \in Slots :
        (req[r].op \in {"get", "update", "delete"} /\ ~IsMongoId(req[r].eid))
        => (pc[r] = "done" /\ res[r] = InvalidId)

\* an update with a malformed identifier and an invalid body was answered
C6_Witness ==
    \E r \in Slots :
        /\ Answered(r, "update", 400)
        /\ req[r].eid = BadId
        /\ ValidationErrors(validateEmployeeUpdate, req[r]) # <<>>
        /\ res[r] = InvalidId

\* what a fetch of the record created from body b under identifier eid shows
\* (2023-01-01 is day 19358 of the epoch)
CreatedView(eid, b) ==
    [employee_id |-> eid, first_name |-> b.first_name, last_name |-> b.last_name,
     email |-> b.email, position |-> b.position,
     salary |-> IF b.salary = <<"5", "0", "0", "0", "0">> THEN 50000
                ELSE IF b.salary = <<"-", "0", "7">> THEN 0 - 7
                ELSE Number(b.salary),
     date_of_joining |-> IF b.date_of_joining = BaseBody(EmailA).date_of_joining
                         THEN 19358 ELSE NewDate(b.date_of_joining),
     department |-> b.department]

\* C8: a fetch by the identifier a create answered with, looked up after that
\* answer while the record is stored and no update has written to it, answers
\* 200 with the created fields, salary as a number, date_of_joining as a date,
\* and no timestamps.
C8_CreateFetchRoundTrip ==
    [][\A c, g \in Slots :
          (/\ Answered(c, "create", 201)
           /\ req[g].op = "get" /\ pc[g] = "g_find" /\ pc'[g] = "done"
           /\ req[g].eid = res[c].body.employee_id
           /\ ObjectId(req[g].eid) \in DOMAIN employees
           /\ ObjectId(req[g].eid) \notin updatedIds)
          => res'[g] = OkRes(200, CreatedView(res[c].body.employee_id, req[c].body))]_vars

\* a record created with salary "-07" was fetched by the identifier returned
C8_Witness ==
    \E c, g \in Slots :
        /\ Answered(c, "create", 201)
        /\ Answered(g, "get", 200)
        /\ req[g].eid = res[c].body.employee_id
        /\ ObjectId(req[g].eid) \notin updatedIds
        /\ res[g].body.salary = 0 - 7

\* C10, as stated: when an update answers 200, its supplied fields are in a
\* stored record with its identifier, also when a delete of that identifier
\* runs between the update's existence check and its write.
C10_UpdateOkMeansWritten ==
    [][\A r \in Slots :
          (pc[r] = "u_write" /\ pc'[r] = "done" /\ res'[r].status = 200)
          => LET id == ObjectId(req[r].eid)
             IN  /\ id \in DOMAIN employees'
                 /\ \A f \in DOMAIN req[r].body : employees'[id][f] = local[r][f]]_vars

-----------------------------------------------------------------------------
(* Properties of the user routes *)

SharesName(u, v) == u.email = v.email \/ u.username = v.username

\* C2, as stated: no two stored users have the same email or the same
\* username, whatever the interleaving of signups.
C2_UniqueUsers ==
    \A i, j \in DOMAIN users : i # j => ~SharesName(users[i], users[j])

\* C2, amended: two stored users have the same email or username only when
\* their signups overlapped: neither signup's existence check ran after the
\* other's insert.
C2_DuplicatesOnlyFromOverlap ==
    \A i, j \in DOMAIN users :
        (i # j /\ SharesName(users[i], users[j])) => i \notin sawAtCheck[j]

DuplicateUser == ErrorRes(400, "User already exists with this email or username")

\* a signup that saw an earlier user was inserted, and a signup was refused
\* for a username already stored under another email
C2_Witness ==
    /\ \E i, j \in DOMAIN users : i \in sawAtCheck[j]
    /\ \E r \in Slots :
          /\ Answered(r, "signup", 400)
          /\ res[r] = DuplicateUser
          /\ \E i \in DOMAIN users :
                users[i].username = req[r].body.username /\ users[i].email # req[r].body.email

\* C7: every login that finds no user and every login whose credential does
\* not verify is answered 401, and any two 401 answers are identical.
C7_LoginFailuresIdentical ==
    \A r, q \in Slots :
        /\ (/\ req[r].op = "login" /\ pc[r] = "done" /\ res[r].status # 400
            /\ (~local[r].found
                \/ ~BcryptCompare(req[r].body.password, local[r].doc.password)))
           => res[r].status = 401
        /\ (Answered(r, "login", 401) /\ Answered(q, "login", 401)) => res[r] = res[q]

\* one login found no user, another found its user by email and failed the
\* credential check
C7_Witness ==
    \E r, q \in Slots :
        /\ Answered(r, "login", 401) /\ ~local[r].found
        /\ Answered(q, "login", 401) /\ local[q].found
        /\ local[q].doc.email = req[q].body.email

\* C9, as stated: a login that passes validation answers 200 exactly when the
\* store holds a user whose email or username equals the supplied email
\* field and whose hash verifies the supplied credential (compared while the
\* store is as it was at the login's lookup).
C9_LoginOkIffSomeUserVerifies ==
    \A r \in Slots :
        (/\ req[r].op = "login" /\ pc[r] = "done" /\ res[r].status # 400
         /\ seen[r] = DOMAIN users)
        => /\ res[r].status \in {200, 401}
           /\ res[r].status = 200
              <=> \E i \in DOMAIN users :
                     /\ LoginFilter(users[i], req[r].body)
                     /\ BcryptCompare(req[r].body.password, users[i].password)

=============================================================================
